---- MODULE Spec2Model ----
(***************************************************************************)
(* Receipt verification and payment intents of the SolPay x402 SDK: the    *)
(* TypeScript client (class SolPayX402) and, for its constructor, its pay  *)
(* and its canonical JSON, the PHP client (class Client).                  *)
(*                                                                         *)
(* A JavaScript value is a record tagged by its type.  A string is the     *)
(* sequence of its characters (one-character TLA+ strings), an object is   *)
(* the sequence of its members in property order.                          *)
(***************************************************************************)
EXTENDS Integers, Sequences, FiniteSets, TLC

VARIABLES
    doc,        \* the document served at the receipt URL
    orig,       \* the document served before the last alteration
    stage,      \* "draft", "issued" (digest embedded) or "altered"
    edit,       \* the kind of the last alteration
    outcome,    \* what the fetch of the last verifyReceipt call met, or NoCall
    res,        \* completion of the last verifyReceipt call, or NoCall
    config,     \* this.config of the client, or NoClient
    sent,       \* bodies of the creation requests sent, oldest first
    last,       \* completion of the last call of the client other than
                \* verifyReceipt, or NoCall
    call,       \* that call: its method and the response its request met
    remote,     \* the payment intent the remote service created last
    verifies,   \* number of verifyReceipt calls made
    requests,   \* number of HTTP requests the last call of a client issued
    examined,   \* the last comparison of two digests: its operator and the
                \* number of character positions it examined
    route       \* the hosted page shown, or NoRoute

vars == <<doc, orig, stage, edit, outcome, res, config, sent, last, call, remote,
          verifies, requests, examined, route>>

(***************************************************************************)
(* Bounds of the model.                                                    *)
(***************************************************************************)
MaxAmount == 2      \* numbers in a document are -0 and 0..MaxAmount
MaxPays == 2        \* pay calls of one client
MaxLen == 2         \* elements of a generated array
MaxVerifies == 2    \* verifyReceipt calls of one client

(***************************************************************************)
(* JavaScript values.                                                      *)
(***************************************************************************)
Undefined == [t |-> "undefined"]
Null == [t |-> "null"]
Bool(b) == [t |-> "boolean", v |-> b]
\* a number in sign and magnitude: Num(TRUE, 0) is the negative zero
Num(neg, mag) == [t |-> "number", neg |-> neg, mag |-> mag]
\* the numbers that are not finite, and a function object
NaN == [t |-> "number", nan |-> TRUE]
Infinity(neg) == [t |-> "number", neg |-> neg, inf |-> TRUE]
Function == [t |-> "function"]
IsFinite(x) == "mag" \in DOMAIN x
Str(s) == [t |-> "string", v |-> s]
Arr(items) == [t |-> "array", v |-> items]
Obj(members) == [t |-> "object", v |-> members]
Member(k, v) == [k |-> k, v |-> v]

NoCall == [kind |-> "none"]
Return(v) == [kind |-> "return", value |-> v]
Throw(text) == [kind |-> "throw", message |-> [t |-> "message", text |-> text]]

(***************************************************************************)
(* Characters, in the order of their UTF-16 code units.                    *)
(***************************************************************************)
CodeUnits ==
    <<"\n", "\"", "#", ",", "-", "0", "1", "2", "3", "4", "5", "6", "7", "8",
      "9", ":", "[", "\\", "]", "_", "a", "b", "c", "d", "e", "f", "g", "h",
      "i", "j", "k", "l", "m", "n", "o", "p", "q", "r", "s", "t", "u", "v",
      "w", "x", "y", "z", "{", "}">>

CodeUnit == [c \in {CodeUnits[i] : i \in DOMAIN CodeUnits} |->
                CHOOSE i \in DOMAIN CodeUnits : CodeUnits[i] = c]

\* a < b for two strings, as the default comparison of Array.prototype.sort
StrLess(a, b) ==
    \E i \in 1..Len(b) :
        /\ \A j \in 1..(i - 1) : j <= Len(a) /\ a[j] = b[j]
        /\ (i > Len(a) \/ CodeUnit[a[i]] < CodeUnit[b[i]])

RECURSIVE InsertKey(_, _)
InsertKey(k, sorted) ==
    IF sorted = <<>> THEN <<k>>
    ELSE IF StrLess(k, Head(sorted)) THEN <<k>> \o sorted
    ELSE <<Head(sorted)>> \o InsertKey(k, Tail(sorted))

\* Object.keys(obj) left in property order
SortOmitted(keys) == keys

\* Array.prototype.sort() without a comparator, on an array of strings
RECURSIVE Sort(_)
Sort(keys) ==
    IF keys = <<>> THEN <<>>
    ELSE InsertKey(keys[Len(keys)], Sort(SubSeq(keys, 1, Len(keys) - 1)))

RECURSIVE Join(_, _)
Join(parts, sep) ==
    IF parts = <<>> THEN <<>>
    ELSE IF Len(parts) = 1 THEN parts[1]
    ELSE parts[1] \o sep \o Join(Tail(parts), sep)

(***************************************************************************)
(* JSON.stringify of a primitive.                                          *)
(***************************************************************************)
Digit(d) == CodeUnits[6 + d]

RECURSIVE Digits(_)
Digits(n) == IF n < 10 THEN <<Digit(n)>> ELSE Digits(n \div 10) \o <<Digit(n % 10)>>

\* Number::toString: both zeros render as 0
NumberToString(n) ==
    IF n.mag = 0 THEN <<"0">>
    ELSE IF n.neg THEN <<"-">> \o Digits(n.mag)
    ELSE Digits(n.mag)

QuoteChar(c) ==
    IF c = "\"" THEN <<"\\", "\"">>
    ELSE IF c = "\\" THEN <<"\\", "\\">>
    ELSE IF c = "\n" THEN <<"\\", "n">>
    ELSE <<c>>

\* the characters of a string quoted one by one (the string is halved to
\* keep the recursion shallow)
RECURSIVE QuoteBody(_)
QuoteBody(s) ==
    IF s = <<>> THEN <<>>
    ELSE IF Len(s) = 1 THEN QuoteChar(s[1])
    ELSE LET half == Len(s) \div 2
         IN  QuoteBody(SubSeq(s, 1, half)) \o QuoteBody(SubSeq(s, half + 1, Len(s)))

\* QuoteJSONString
QuoteJSONString(s) == <<"\"">> \o QuoteBody(s) \o <<"\"">>

\* String(x), for a number
NumberString(x) ==
    IF IsFinite(x) THEN NumberToString(x)
    ELSE IF "nan" \in DOMAIN x THEN <<"N", "a", "N">>
    ELSE IF x.neg THEN <<"-", "I", "n", "f", "i", "n", "i", "t", "y">>
    ELSE <<"I", "n", "f", "i", "n", "i", "t", "y">>

\* a number that is not finite rendered by its name
JSONstringifyByName(x) ==
    CASE x.t = "string" -> Str(QuoteJSONString(x.v))
      [] x.t = "number" -> Str(NumberString(x))
      [] x.t = "boolean" -> Str(IF x.v THEN <<"t", "r", "u", "e">>
                                ELSE <<"f", "a", "l", "s", "e">>)
      [] OTHER -> Undefined

\* JSON.stringify of a value that is neither null nor an object: a string,
\* or undefined for undefined and for a function; a number that is not
\* finite is serialized as null
JSONstringify(x) ==
    CASE x.t = "string" -> Str(QuoteJSONString(x.v))
      [] x.t = "number" -> Str(IF IsFinite(x) THEN NumberToString(x)
                               ELSE <<"n", "u", "l", "l">>)
      [] x.t = "boolean" -> Str(IF x.v THEN <<"t", "r", "u", "e">>
                                ELSE <<"f", "a", "l", "s", "e">>)
      [] OTHER -> Undefined

\* what a template literal makes of a result of canonicalJSON
TemplateString(x) ==
    IF x.t = "undefined" THEN <<"u", "n", "d", "e", "f", "i", "n", "e", "d">>
    ELSE x.v

\* what Array.prototype.join makes of an element: undefined joins as the
\* empty string
JoinString(x) == IF x.t = "undefined" THEN <<>> ELSE x.v

(***************************************************************************)
(* SolPayX402.canonicalJSON                                                *)
(***************************************************************************)
ObjectKeys(obj) == [i \in 1..Len(obj.v) |-> obj.v[i].k]

\* obj[key] for an own property of an object
Prop(obj, key) ==
    LET i == CHOOSE i \in 1..Len(obj.v) : obj.v[i].k = key IN obj.v[i].v

\* the result is a string, or undefined for undefined and for a function
RECURSIVE canonicalJSON(_)
canonicalJSON(obj) ==
    IF obj.t = "null" THEN Str(<<"n", "u", "l", "l">>)
    ELSE IF obj.t \notin {"object", "array"} THEN JSONstringify(obj)
    ELSE IF obj.t = "array" THEN
        Str(<<"[">>
            \o Join([i \in 1..Len(obj.v) |-> JoinString(canonicalJSON(obj.v[i]))],
                    <<",">>)
            \o <<"]">>)
    ELSE
        LET keys == Sort(ObjectKeys(obj))
            pairs == [i \in 1..Len(keys) |->
                        <<"\"">> \o keys[i] \o <<"\"", ":">>
                        \o TemplateString(canonicalJSON(Prop(obj, keys[i])))]
        IN Str(<<"{">> \o Join(pairs, <<",">>) \o <<"}">>)

(***************************************************************************)
(* SolPayX402.computeReceiptHash                                           *)
(***************************************************************************)
KeySha256Hash == <<"s", "h", "a", "2", "5", "6", "_", "h", "a", "s", "h">>
KeyHash == <<"h", "a", "s", "h">>

\* SHA-256 in hex, taken to be collision-free: the digest of s is written
\* as the marker # followed by s, so two digests are equal exactly when
\* their inputs are.
Sha256Hex(s) == <<"#">> \o s

\* delete obj[key]
Delete(obj, key) == Obj(SelectSeq(obj.v, LAMBDA m : m.k # key))

\* the digest member left in the hashed document
computeReceiptHashOfAll(receipt) == Sha256Hex(canonicalJSON(receipt).v)

\* the member removed from the object and from every value inside it
RECURSIVE DeleteDeep(_, _)
DeleteDeep(x, key) ==
    CASE x.t = "object" ->
            LET kept == SelectSeq(x.v, LAMBDA m : m.k # key)
            IN  Obj([i \in 1..Len(kept) |->
                        Member(kept[i].k, DeleteDeep(kept[i].v, key))])
      [] x.t = "array" -> Arr([i \in 1..Len(x.v) |-> DeleteDeep(x.v[i], key)])
      [] OTHER -> x

\* the digest members removed at every depth
computeReceiptHashDeep(receipt) ==
    Sha256Hex(canonicalJSON(DeleteDeep(DeleteDeep(receipt, KeySha256Hash), KeyHash)).v)

\* the legacy name hash left in the hashed document
computeReceiptHashKeepingLegacy(receipt) ==
    Sha256Hex(canonicalJSON(Delete(receipt, KeySha256Hash)).v)

computeReceiptHash(receipt) ==
    LET canonical == Delete(Delete(receipt, KeySha256Hash), KeyHash)
        canonicalJson == canonicalJSON(canonical)
    IN Sha256Hex(canonicalJson.v)

(***************************************************************************)
(* SolPayX402.verifyReceipt                                                *)
(***************************************************************************)
HasOwn(x, key) == x.t = "object" /\ \E i \in 1..Len(x.v) : x.v[i].k = key

\* ToBoolean
Truthy(x) ==
    CASE x.t \in {"undefined", "null"} -> FALSE
      [] x.t = "boolean" -> x.v
      [] x.t = "number" -> IF IsFinite(x) THEN x.mag # 0 ELSE "inf" \in DOMAIN x
      [] x.t = "string" -> x.v # <<>>
      [] OTHER -> TRUE

\* the outcomes of fetch(receiptUrl) and of response.json()
NetworkError == [fetch |-> "rejects", text |-> <<"fetch failed">>]
HttpError == [fetch |-> "resolves", ok |-> FALSE, status |-> "404",
              statusText |-> "Not Found",
              json |-> Throw(<<"Unexpected end of JSON input">>)]
BadBody == [fetch |-> "resolves", ok |-> TRUE, status |-> "200", statusText |-> "OK",
            json |-> Throw(<<"Unexpected token < in JSON at position 0">>)]
Fetched(d) == [fetch |-> "resolves", ok |-> TRUE, status |-> "200", statusText |-> "OK",
               json |-> Return(d)]

Succeeded(response) == response.fetch = "resolves" /\ response.ok

\* a request that failed is sent once more
FetchesRetrying(method, response) == IF Succeeded(response) THEN 1 ELSE 2

\* the requests one call of verifyReceipt, pay, confirmPayment or
\* getPaymentIntent issues, whatever its request meets: the method calls
\* fetch once, in no loop
Fetches(method, response) == 1

\* lines 1101-1107: the document, or what is thrown while fetching it
FetchReceiptIgnoringStatus(response) ==
    IF response.fetch = "rejects" THEN Throw(response.text)
    ELSE response.json

FetchReceipt(response) ==
    IF response.fetch = "rejects" THEN Throw(response.text)
    ELSE IF ~response.ok
        THEN Throw(<<"Failed to fetch receipt: ", response.statusText>>)
    ELSE response.json

\* x?.key
GetOptional(x, key) ==
    IF HasOwn(x, key) THEN Return(Prop(x, key)) ELSE Return(Undefined)

\* x.key for one of the keys sha256_hash and hash, which no prototype
\* defines: reading it from null throws a TypeError, from a primitive or
\* an array it gives undefined
Get(x, key) ==
    IF x = Null THEN Throw(<<"Cannot read properties of null (reading '", key, "')">>)
    ELSE IF HasOwn(x, key) THEN Return(Prop(x, key))
    ELSE Return(Undefined)

\* receipt.hash || receipt.sha256_hash
ReportedHashAliasFirst(receipt) ==
    LET first == Get(receipt, KeyHash)
    IN  IF first.kind = "throw" \/ Truthy(first.value) THEN first
        ELSE Get(receipt, KeySha256Hash)

\* line 1110: receipt.sha256_hash || receipt.hash
ReportedHash(receipt) ==
    LET first == Get(receipt, KeySha256Hash)
    IN  IF first.kind = "throw" \/ Truthy(first.value) THEN first
        ELSE Get(receipt, KeyHash)

\* the first position where two strings of one length differ
FirstDifference(a, b) ==
    CHOOSE i \in 1..Len(a) : a[i] # b[i] /\ \A j \in 1..(i - 1) : a[j] = b[j]

\* the positions a === b examines where a is a string, as the engines
\* compare two strings: none when b is no string or has another length,
\* otherwise the code units up to the first that differ
StrictEqualsExamined(a, b) ==
    IF b.t # "string" \/ Len(a.v) # Len(b.v) THEN 0
    ELSE IF a.v = b.v THEN Len(a.v)
    ELSE FirstDifference(a.v, b.v)

\* reportedHash === reportedHash
StrictEqualsSelf(a, b) == b.t = "string" /\ b.v = b.v

\* a === b where a is a string
StrictEquals(a, b) == b.t = "string" /\ a.v = b.v

\* the digest members deleted from the receipt itself, not from a copy
VerdictOfStripped(receipt, reportedHash) ==
    LET computedHash == Str(computeReceiptHash(receipt))
        ok == StrictEquals(computedHash, reportedHash)
    IN  Return([ok |-> ok,
                computed_hash |-> computedHash,
                reported_hash |-> reportedHash,
                receipt |-> Delete(Delete(receipt, KeySha256Hash), KeyHash),
                error |-> Undefined])

Verdict(receipt, reportedHash) ==
    LET computedHash == Str(computeReceiptHash(receipt))
        ok == StrictEquals(computedHash, reportedHash)
    IN  Return([ok |-> ok,
                computed_hash |-> computedHash,
                reported_hash |-> reportedHash,
                receipt |-> receipt,
                error |-> Undefined])

\* the check of lines 1112-1114 left out for an object
CheckUnguarded(receipt, reportedHash) ==
    IF receipt.t = "object" THEN Verdict(receipt, reportedHash)
    ELSE Throw(<<"Receipt does not contain sha256_hash field">>)

\* lines 1112-1133
Check(receipt, reportedHash) ==
    IF ~Truthy(reportedHash)
    THEN Throw(<<"Receipt does not contain sha256_hash field">>)
    ELSE Verdict(receipt, reportedHash)

\* the try block of verifyReceipt
verifyReceiptTry(response) ==
    LET fetched == FetchReceipt(response)
    IN  IF fetched.kind = "throw" THEN fetched
        ELSE
        LET receipt == fetched.value
            reportedHash == ReportedHash(receipt)
        IN  IF reportedHash.kind = "throw" THEN reportedHash
            ELSE Check(receipt, reportedHash.value)

\* a receipt verified once is refused afterwards
verifyReceiptOnce(response) ==
    LET try == IF verifies > 0 THEN Throw(<<"Receipt already verified">>)
               ELSE verifyReceiptTry(response)
    IN  IF try.kind = "throw"
        THEN Return([ok |-> FALSE,
                     computed_hash |-> Str(<<>>),
                     reported_hash |-> Str(<<>>),
                     receipt |-> Undefined,
                     error |-> try.message])
        ELSE try

verifyReceiptNoCatch(response) == verifyReceiptTry(response)

\* the comparison of line 1120, when verifyReceipt reaches it
verifyReceiptExamined(response) ==
    LET try == verifyReceiptTry(response)
    IN  IF try.kind = "throw" THEN examined
        ELSE [op |-> "===",
              n |-> StrictEqualsExamined(try.value.computed_hash,
                                         try.value.reported_hash)]

verifyReceipt(response) ==
    LET try == verifyReceiptTry(response)
    IN  IF try.kind = "throw"
        THEN Return([ok |-> FALSE,
                     computed_hash |-> Str(<<>>),
                     reported_hash |-> Str(<<>>),
                     receipt |-> Undefined,
                     error |-> try.message])
        ELSE try

(***************************************************************************)
(* The PHP client: Client::canonicalJSON, on the value json_decode($json,  *)
(* true) gives.  A PHP array is the sequence of its entries in order; a    *)
(* key is an integer or a string.                                          *)
(***************************************************************************)
IntKey(n) == [int |-> TRUE, n |-> n, s |-> <<>>]
StrKey(s) == [int |-> FALSE, n |-> 0, s |-> s]
PhpArray(entries) == [t |-> "phparray", v |-> entries]

DecimalDigits == {"0", "1", "2", "3", "4", "5", "6", "7", "8", "9"}
DigitValue(c) == CodeUnit[c] - 6

RECURSIVE DigitsValue(_)
DigitsValue(s) ==
    IF s = <<>> THEN 0
    ELSE 10 * DigitsValue(SubSeq(s, 1, Len(s) - 1)) + DigitValue(s[Len(s)])

\* a string key that is a decimal integer becomes an integer key
ArrayKey(s) ==
    IF /\ s # <<>>
       /\ \A i \in 1..Len(s) : s[i] \in DecimalDigits
       /\ (Len(s) = 1 \/ s[1] # "0")
    THEN IntKey(DigitsValue(s))
    ELSE StrKey(s)

\* json_decode($json, true) of the text JSON.parse makes the value x of: an
\* object and an array both become a PHP array, -0 becomes the float -0.0
RECURSIVE json_decode(_)
json_decode(x) ==
    IF x.t = "array"
    THEN PhpArray([i \in 1..Len(x.v) |-> [k |-> IntKey(i - 1), v |-> json_decode(x.v[i])]])
    ELSE IF x.t = "object"
    THEN PhpArray([i \in 1..Len(x.v) |->
                    [k |-> ArrayKey(x.v[i].k), v |-> json_decode(x.v[i].v)]])
    ELSE x

\* range($from, $to): counts down when $to is below $from
range(from, to) ==
    IF from <= to THEN [i \in 1..(to - from + 1) |-> from + i - 1]
    ELSE [i \in 1..(from - to + 1) |-> from - i + 1]

array_keys(data) == [i \in 1..Len(data.v) |-> data.v[i].k]

\* (string) $key
KeyString(k) == IF k.int THEN Digits(k.n) ELSE k.s

\* $a < $b for two keys, as ksort compares them: two integers as numbers,
\* otherwise as strings (no string key is numeric)
KeyLess(a, b) ==
    IF a.int /\ b.int THEN a.n < b.n ELSE StrLess(KeyString(a), KeyString(b))

RECURSIVE InsertEntry(_, _)
InsertEntry(e, sorted) ==
    IF sorted = <<>> THEN <<e>>
    ELSE IF KeyLess(e.k, Head(sorted).k) THEN <<e>> \o sorted
    ELSE <<Head(sorted)>> \o InsertEntry(e, Tail(sorted))

RECURSIVE ksort(_)
ksort(entries) ==
    IF entries = <<>> THEN <<>>
    ELSE InsertEntry(entries[Len(entries)], ksort(SubSeq(entries, 1, Len(entries) - 1)))

\* (string) $data for an int or a float: the float -0.0 gives -0
PhpNumberString(n) == IF n.neg THEN <<"-">> \o Digits(n.mag) ELSE Digits(n.mag)

\* json_encode($s, JSON_UNESCAPED_SLASHES) of a string of the characters of
\* CodeUnits
json_encode(s) == QuoteJSONString(s)

\* array_keys($data) !== range(0, count($data) - 1)
IsObject(data) ==
    LET keys == array_keys(data)
        indices == range(0, Len(data.v) - 1)
    IN  \/ Len(keys) # Len(indices)
        \/ \E i \in 1..Len(keys) : keys[i] # IntKey(indices[i])

RECURSIVE PhpCanonicalJSON(_)
PhpCanonicalJSON(data) ==
    IF data.t = "phparray" THEN
        IF IsObject(data) THEN
            LET sorted == ksort(data.v)
                pairs == [i \in 1..Len(sorted) |->
                            json_encode(KeyString(sorted[i].k)) \o <<":">>
                            \o PhpCanonicalJSON(sorted[i].v)]
            IN  <<"{">> \o Join(pairs, <<",">>) \o <<"}">>
        ELSE
            <<"[">> \o Join([i \in 1..Len(data.v) |-> PhpCanonicalJSON(data.v[i].v)],
                           <<",">>)
            \o <<"]">>
    ELSE IF data.t = "null" THEN <<"n", "u", "l", "l">>
    ELSE IF data.t = "boolean"
        THEN IF data.v THEN <<"t", "r", "u", "e">> ELSE <<"f", "a", "l", "s", "e">>
    ELSE IF data.t = "number" THEN PhpNumberString(data)
    ELSE json_encode(data.v)

\* isset($x)
isset(x) == x.t \notin {"undefined", "null"}

\* empty($x) for null, a boolean, a number, a string or an array
empty(x) ==
    CASE x.t \in {"undefined", "null"} -> TRUE
      [] x.t = "boolean" -> ~x.v
      [] x.t = "number" -> x.mag = 0
      [] x.t = "string" -> x.v = <<>> \/ x.v = <<"0">>
      [] x.t = "phparray" -> x.v = <<>>
      [] OTHER -> FALSE

(***************************************************************************)
(* Client::verifyReceipt and Client::computeReceiptHash, on the array      *)
(* json_decode gives.                                                      *)
(***************************************************************************)
KeyReceiptHash == <<"r", "e", "c", "e", "i", "p", "t", "_", "h", "a", "s", "h">>

\* $data[$key], undefined when the key is not set
PhpItem(data, key) ==
    IF \E i \in 1..Len(data.v) : data.v[i].k = key
    THEN data.v[CHOOSE i \in 1..Len(data.v) : data.v[i].k = key].v
    ELSE Undefined

\* unset($data[$key])
unset(data, key) == PhpArray(SelectSeq(data.v, LAMBDA e : e.k # key))

\* computeReceiptHash(array $receipt): the digest without receipt_hash
PhpComputeReceiptHash(receipt) ==
    LET dataToHash == unset(receipt, StrKey(KeyReceiptHash))
        canonicalJson == PhpCanonicalJSON(dataToHash)
    IN  Sha256Hex(canonicalJson)

\* hash_equals($known, $user) under strict_types: a TypeError for a known
\* string that is no string
hash_equals(known, user) ==
    IF known.t # "string"
    THEN Throw(<<"hash_equals(): Argument #1 ($known_string) must be of type string">>)
    ELSE Return(Bool(known.v = user.v))

\* the positions hash_equals examines: none for two lengths that differ,
\* otherwise every one
hash_equalsExamined(known, user) ==
    IF known.t # "string" \/ Len(known.v) # Len(user.v) THEN 0 ELSE Len(user.v)

PhpVerifyReceipt(receipt) ==
    LET providedHash == PhpItem(receipt, StrKey(KeyReceiptHash))
    IN  IF empty(providedHash) THEN Return(Bool(FALSE))
        ELSE hash_equals(providedHash, Str(PhpComputeReceiptHash(receipt)))

\* the comparison of line 399, when verifyReceipt reaches it
PhpVerifyReceiptExamined(receipt) ==
    LET providedHash == PhpItem(receipt, StrKey(KeyReceiptHash))
    IN  IF empty(providedHash) THEN examined
        ELSE [op |-> "hash_equals",
              n |-> hash_equalsExamined(providedHash,
                                        Str(PhpComputeReceiptHash(receipt)))]

(***************************************************************************)
(* The documents the remote service may serve.                             *)
(***************************************************************************)
KeyAmount == <<"a", "m", "o", "u", "n", "t">>
KeySettlement == <<"s", "e", "t", "t", "l", "e", "m", "e", "n", "t">>
KeyMemo == <<"m", "e", "m", "o">>
KeyFee == <<"f", "e", "e">>
KeyNet == <<"n", "e", "t">>
\* the key  fee":1,"net
KeyQuoted == <<"f", "e", "e", "\"", ":", "1", ",", "\"", "n", "e", "t">>

Numbers == {Num(FALSE, n) : n \in 0..MaxAmount} \cup {Num(TRUE, 0)}
Fees == {Num(FALSE, n) : n \in 1..MaxAmount}

AmountValues == Numbers \cup {Null, Str(<<"x">>)}

\* a value that has a member named as a digest member inside it
NestedDigests ==
    {Obj(<<Member(k, Str(<<c>>))>>) : k \in {KeySha256Hash, KeyHash}, c \in {"x", "y"}}
    \cup {Arr(<<Obj(<<Member(KeyHash, Str(<<c>>))>>)>>) : c \in {"x", "y"}}

SettlementValues ==
    {Null, Obj(<<>>), Arr(<<Num(FALSE, 1), Num(FALSE, 2)>>)}
    \cup NestedDigests
    \cup {Obj(<<Member(k, n)>>) : k \in {KeyFee, KeyNet, KeyQuoted}, n \in Fees}
    \cup {Obj(<<Member(KeyFee, n), Member(KeyNet, m)>>) : n, m \in Fees}

MemoValues == {Str(<<"x">>), Str(<<"\"">>)}

ValuesOf(key) ==
    CASE key = KeyAmount -> AmountValues
      [] key = KeySettlement -> SettlementValues
      [] OTHER -> MemoValues

DigestKeys == {KeySha256Hash, KeyHash}
PlainKeys == {KeyAmount, KeySettlement, KeyMemo}

\* zero or one member
Optional(key, values) == {<<>>} \cup {<<Member(key, v)>> : v \in values}

Drafts ==
    {Obj(a \o s \o h) :
        a \in Optional(KeyAmount, AmountValues),
        s \in Optional(KeySettlement, SettlementValues),
        h \in Optional(KeyHash, {Str(<<"x">>)})
              \cup Optional(KeySha256Hash, {Str(<<"x">>)})}

NonObjects ==
    {Null, Bool(TRUE), Num(FALSE, 1), Str(<<"x">>), Arr(<<>>),
     Arr(<<Obj(<<Member(KeySha256Hash, Str(<<"x">>))>>)>>)}

(***************************************************************************)
(* Changes of a document.                                                  *)
(***************************************************************************)
\* obj[key] = value
Set(obj, key, value) ==
    IF HasOwn(obj, key)
    THEN Obj([i \in 1..Len(obj.v) |->
                IF obj.v[i].k = key THEN Member(key, value) ELSE obj.v[i]])
    ELSE Obj(Append(obj.v, Member(key, value)))

Rename(obj, key, to) ==
    Obj([i \in 1..Len(obj.v) |->
            IF obj.v[i].k = key THEN Member(to, obj.v[i].v) ELSE obj.v[i]])

\* the member orders of an object
Orders(obj) ==
    {Obj([i \in 1..Len(obj.v) |-> obj.v[p[i]]]) : p \in Permutations(1..Len(obj.v))}

\* the documents that differ from obj in the member order of the object
\* or of an object nested in it
Reorderings(obj) ==
    LET nested(o) ==
            IF HasOwn(o, KeySettlement) /\ Prop(o, KeySettlement).t = "object"
            THEN {Set(o, KeySettlement, n) : n \in Orders(Prop(o, KeySettlement))}
            ELSE {o}
    IN  UNION {nested(o) : o \in Orders(obj)}

(***************************************************************************)
(* The specification of receipt verification.                              *)
(***************************************************************************)
NoClient == [t |-> "none"]
Called(method, response) == [kind |-> "call", method |-> method, response |-> response]
NoComparison == [op |-> "none", n |-> 0]
NoRoute == [page |-> "none", id |-> Str(<<>>), redirects |-> 0, shown |-> FALSE]
NoIntent == [id |-> 0, status |-> "none"]

Init ==
    /\ doc \in Drafts \cup NonObjects
    /\ orig = doc
    /\ stage = "draft"
    /\ edit = "none"
    /\ outcome = NoCall
    /\ res = NoCall
    /\ config = NoClient
    /\ sent = <<>>
    /\ last = NoCall
    /\ call = NoCall
    /\ remote = NoIntent
    /\ verifies = 0
    /\ requests = 0
    /\ examined = NoComparison
    /\ route = NoRoute

\* the remote service computes the digest of the document and embeds it
Issue ==
    /\ stage = "draft"
    /\ doc.t = "object"
    /\ res = NoCall
    /\ last = NoCall
    /\ doc' = Set(doc, KeySha256Hash, Str(computeReceiptHash(doc)))
    /\ orig' = doc'
    /\ stage' = "issued"
    /\ UNCHANGED <<edit, outcome, res, config, sent, last, call, remote, verifies,
                   requests, examined, route>>

Altered(kind, d) ==
    /\ stage = "issued"
    /\ res = NoCall
    /\ last = NoCall
    /\ d # doc
    /\ doc' = d
    /\ orig' = doc
    /\ stage' = "altered"
    /\ edit' = kind
    /\ UNCHANGED <<outcome, res, config, sent, last, call, remote, verifies,
                   requests, examined, route>>

ChangeValue ==
    \E key \in PlainKeys : \E v \in ValuesOf(key) :
        /\ HasOwn(doc, key)
        /\ Altered("value", Set(doc, key, v))

AddMember ==
    \E key \in PlainKeys : \E v \in ValuesOf(key) :
        /\ ~HasOwn(doc, key)
        /\ Altered("add", Set(doc, key, v))

RemoveMember ==
    \E key \in PlainKeys :
        /\ HasOwn(doc, key)
        /\ Altered("remove", Delete(doc, key))

RenameMember ==
    \E key \in PlainKeys : \E to \in PlainKeys :
        /\ HasOwn(doc, key)
        /\ ~HasOwn(doc, to)
        /\ Altered("rename", Rename(doc, key, to))

Reorder ==
    /\ stage = "issued"
    /\ \E d \in Reorderings(doc) : Altered("reorder", d)

DigestValues == {Str(<<>>), Str(<<"x">>), Null, Num(FALSE, 1)}

\* the value of sha256_hash changes, once or several times
ChangeDigest ==
    /\ stage = "issued" \/ (stage = "altered" /\ edit = "digest")
    /\ res = NoCall
    /\ last = NoCall
    /\ \E v \in DigestValues \cup {Str(computeReceiptHash(doc))} :
        /\ Prop(doc, KeySha256Hash) # v
        /\ doc' = Set(doc, KeySha256Hash, v)
        /\ orig' = doc
        /\ stage' = "altered"
        /\ edit' = "digest"
        /\ UNCHANGED <<outcome, res, config, sent, last, call, remote, verifies,
                       requests, examined, route>>

\* sha256_hash is removed, or hash is added, changed or removed
ChangeAlias ==
    /\ stage = "issued"
    /\ \/ \E key \in DigestKeys : HasOwn(doc, key) /\ Altered("alias", Delete(doc, key))
       \/ \E v \in DigestValues \cup {Str(computeReceiptHash(doc))} :
            Altered("alias", Set(doc, KeyHash, v))

\* a digest with its second character changed
Corrupted(digest) == <<digest[1], "!">> \o SubSeq(digest, 3, Len(digest))

\* the document gets a member receipt_hash
AddReceiptHash ==
    /\ stage = "issued"
    /\ \E v \in {Str(<<>>), Null, Num(FALSE, 1),
                 Str(PhpComputeReceiptHash(json_decode(doc))),
                 Str(Corrupted(PhpComputeReceiptHash(json_decode(doc))))} :
            Altered("receipt_hash", Set(doc, KeyReceiptHash, v))

\* await client.verifyReceipt(receiptUrl)
VerifyReceipt ==
    \E r \in {NetworkError, HttpError, BadBody, Fetched(doc)} :
        /\ res = NoCall
        /\ last = NoCall
        /\ outcome' = r
        /\ res' = verifyReceipt(r)
        /\ verifies' = verifies + 1
        /\ requests' = Fetches("verifyReceipt", r)
        /\ examined' = verifyReceiptExamined(r)
        /\ UNCHANGED <<doc, orig, stage, edit, config, sent, last, call, remote, route>>

\* $client->verifyReceipt(json_decode($body, true)) for the document served
PhpVerify ==
    /\ res = NoCall
    /\ last = NoCall
    /\ stage # "draft"
    /\ doc.t = "object"
    /\ last' = PhpVerifyReceipt(json_decode(doc))
    /\ call' = Called("verifyReceipt", NoCall)
    /\ requests' = 0
    /\ examined' = PhpVerifyReceiptExamined(json_decode(doc))
    /\ UNCHANGED <<doc, orig, stage, edit, outcome, res, config, sent, remote, verifies,
                   route>>

Next ==
    \/ Issue
    \/ ChangeValue
    \/ AddMember
    \/ RemoveMember
    \/ RenameMember
    \/ Reorder
    \/ ChangeDigest
    \/ ChangeAlias
    \/ AddReceiptHash
    \/ VerifyReceipt
    \/ PhpVerify

Spec == Init /\ [][Next]_vars

(***************************************************************************)
(* The values given to the serializers.                                    *)
(***************************************************************************)
\* JSON.parse of a number literal  -?digits(.0*)?  : the fraction of zeros
\* adds nothing to the number
JSONparseNumber(text) ==
    LET neg == Head(text) = "-"
        body == IF neg THEN Tail(text) ELSE text
        dot == IF \E i \in 1..Len(body) : body[i] = "."
               THEN CHOOSE i \in 1..Len(body) : body[i] = "."
               ELSE Len(body) + 1
    IN  Num(neg, DigitsValue(SubSeq(body, 1, dot - 1)))

NumberLiterals ==
    {<<"1">>, <<"1", ".", "0">>, <<"1", "0">>, <<"1", "0", ".", "0">>,
     <<"-", "0">>, <<"0", ".", "0", "0">>}

KeyMerchant == <<"m", "e", "r", "c", "h", "a", "n", "t">>
KeyItems == <<"i", "t", "e", "m", "s">>
\* the key  fee":1},{"fee
KeyBraced == <<"f", "e", "e", "\"", ":", "1", "}", ",", "{", "\"", "f", "e", "e">>

\* the receipt of the documented example, as response.json() gives it
ExampleReceipt ==
    Obj(<<Member(KeyAmount, JSONparseNumber(<<"1", "0", ".", "0">>)),
          Member(KeyMerchant, Str(<<"A", "B", "C", "1", "2", "3">>)),
          Member(KeySha256Hash, Str(<<"x", "x", "x">>))>>)

Elements == Numbers \cup {Null, Str(<<"x">>)}
Arrays == {Arr(a) : a \in UNION {[1..n -> Elements] : n \in 0..MaxLen}}
Items312 == Arr(<<Num(FALSE, 3), Num(FALSE, 1), Num(FALSE, 2)>>)
FeeOne == Obj(<<Member(KeyFee, Num(FALSE, 1))>>)
BracedOne == Obj(<<Member(KeyBraced, Num(FALSE, 1))>>)

JsonValues ==
    Arrays
    \cup {Obj(<<Member(KeyItems, a)>>) : a \in Arrays \cup {Items312}}
    \cup {JSONparseNumber(l) : l \in NumberLiterals}
    \cup {Bool(TRUE), Bool(FALSE), Str(<<>>), Str(<<"\"">>), Obj(<<>>), ExampleReceipt,
          Items312, Arr(<<Arr(<<Num(FALSE, 1), Num(FALSE, 2)>>), Arr(<<>>)>>),
          Arr(<<FeeOne, BracedOne>>), Arr(<<FeeOne, Obj(<<>>)>>),
          Obj(<<Member(<<"0">>, Num(FALSE, 1))>>),
          Obj(<<Member(KeyQuoted, Num(FALSE, 1)), Member(KeyAmount, Null)>>),
          Obj(<<Member(KeyNet, Num(FALSE, 1)), Member(KeyAmount, Null),
                Member(KeyFee, Num(FALSE, 1))>>),
          Obj(<<Member(KeyNet, Num(FALSE, 1)), Member(KeyAmount, Null),
                Member(KeyFee, Num(FALSE, 2))>>),
          Obj(<<Member(KeySettlement,
                       Obj(<<Member(KeyNet, Num(FALSE, 1)),
                             Member(KeyFee, Arr(<<>>))>>))>>)}

NotJson == {NaN, Infinity(FALSE), Infinity(TRUE), Undefined, Function}

OtherValues ==
    NotJson
    \cup {Obj(<<Member(KeyAmount, v)>>) : v \in NotJson}
    \cup {Arr(<<v, Num(FALSE, 1)>>) : v \in NotJson}
    \cup {Obj(<<Member(KeyItems, Arr(<<v>>))>>) : v \in NotJson}

RECURSIVE IsJson(_)
IsJson(x) ==
    CASE x.t \in {"null", "boolean", "string"} -> TRUE
      [] x.t = "number" -> IsFinite(x)
      [] x.t = "array" -> \A i \in 1..Len(x.v) : IsJson(x.v[i])
      [] x.t = "object" -> \A i \in 1..Len(x.v) : IsJson(x.v[i].v)
      [] OTHER -> FALSE

\* the element orders of an array
ElementOrders(a) ==
    {Arr([i \in 1..Len(a.v) |-> a.v[p[i]]]) : p \in Permutations(1..Len(a.v))}

\* the values that differ from x in the element order of one array: x
\* itself, an element of x or a member of x
ArrayReorderings(x) ==
    IF x.t = "array" THEN
        ElementOrders(x)
        \cup UNION {{Arr([x.v EXCEPT ![i] = e]) : e \in ElementOrders(x.v[i])} :
                        i \in {j \in 1..Len(x.v) : x.v[j].t = "array"}}
    ELSE IF x.t = "object" THEN
        UNION {{Obj([x.v EXCEPT ![i] = Member(x.v[i].k, e)]) :
                    e \in ElementOrders(x.v[i].v)} :
                        i \in {j \in 1..Len(x.v) : x.v[j].v.t = "array"}}
    ELSE {}

(***************************************************************************)
(* The specification of the serializers: a value, possibly with the        *)
(* elements of an array of it put in another order, is given to            *)
(* canonicalJSON or computeReceiptHash of the TypeScript client and to     *)
(* canonicalJSON of the PHP client.                                        *)
(***************************************************************************)
\* a call with the arguments given
CalledWith(method, args, response) ==
    [kind |-> "call", method |-> method, response |-> response, args |-> args]
\* a call of the constructor with the configuration given
Constructed(given) ==
    [kind |-> "call", method |-> "constructor", response |-> NoCall, given |-> given]

CanonicalInit ==
    /\ doc \in JsonValues \cup OtherValues
    /\ orig = doc
    /\ stage = "input"
    /\ edit = "none"
    /\ outcome = NoCall
    /\ res = NoCall
    /\ config = NoClient
    /\ sent = <<>>
    /\ last = NoCall
    /\ call = NoCall
    /\ remote = NoIntent
    /\ verifies = 0
    /\ requests = 0
    /\ examined = NoComparison
    /\ route = NoRoute

Permute ==
    /\ stage = "input"
    /\ res = NoCall
    /\ last = NoCall
    /\ \E d \in ArrayReorderings(doc) :
        /\ d # doc
        /\ doc' = d
        /\ orig' = doc
        /\ stage' = "altered"
        /\ edit' = "permute"
    /\ UNCHANGED <<outcome, res, config, sent, last, call, remote, verifies,
                   requests, examined, route>>

\* this.canonicalJSON(doc)
CanonicalJSON ==
    /\ res = NoCall
    /\ res' = Return(canonicalJSON(doc))
    /\ call' = Called("canonicalJSON", NoCall)
    /\ UNCHANGED <<doc, orig, stage, edit, outcome, config, sent, last, remote,
                   verifies, requests, examined, route>>

\* this.computeReceiptHash(doc)
ComputeReceiptHash ==
    /\ res = NoCall
    /\ doc.t = "object"
    /\ IsJson(doc)
    /\ res' = Return(Str(computeReceiptHash(doc)))
    /\ call' = Called("computeReceiptHash", NoCall)
    /\ UNCHANGED <<doc, orig, stage, edit, outcome, config, sent, last, remote,
                   verifies, requests, examined, route>>

\* $this->canonicalJSON(json_decode($json, true))
PhpCanonical ==
    /\ last = NoCall
    /\ IsJson(doc)
    /\ last' = Return(Str(PhpCanonicalJSON(json_decode(doc))))
    /\ UNCHANGED <<doc, orig, stage, edit, outcome, res, config, sent, call, remote,
                   verifies, requests, examined, route>>

CanonicalNext ==
    \/ Permute
    \/ CanonicalJSON
    \/ ComputeReceiptHash
    \/ PhpCanonical

CanonicalSpec == CanonicalInit /\ [][CanonicalNext]_vars

(***************************************************************************)
(* The client: SolPayX402.constructor, pay and createPaymentIntent.        *)
(* The strings of the client (URLs, wallets, network names) are written    *)
(* as sequences of fragments: a template literal concatenates them.        *)
(***************************************************************************)
Text(s) == Str(<<s>>)

ConfigKeys ==
    {"apiBase", "merchantWallet", "network", "facilitatorId", "facilitatorUrl",
     "apiKey", "debug"}

Defaults ==
    [facilitatorId |-> Text("facilitator.payai.network"),
     facilitatorUrl |-> Text("https://facilitator.payai.network"),
     apiKey |-> Str(<<>>),
     debug |-> Bool(FALSE)]

\* { ...Defaults, ...given }: an own property of given wins, whatever its
\* value; a property neither has reads as undefined
Spread(given) ==
    [k \in ConfigKeys |->
        IF k \in DOMAIN given THEN given[k]
        ELSE IF k \in DOMAIN Defaults THEN Defaults[k]
        ELSE Undefined]

constructorUnchecked(given) == Return(Spread(given))

constructor(given) ==
    LET merged == Spread(given)
    IN  IF ~Truthy(merged.apiBase) THEN Throw(<<"apiBase is required">>)
        ELSE IF ~Truthy(merged.merchantWallet)
            THEN Throw(<<"merchantWallet is required">>)
        ELSE IF ~Truthy(merged.network) THEN Throw(<<"network is required">>)
        ELSE Return(merged)

PaymentIntentsUrl(cfg) == Str(cfg.apiBase.v \o <<"/api/v1/payment_intents">>)

RequestBodyWithoutNetwork(cfg, params) ==
    [amount |-> params.amount,
     asset |-> params.asset,
     merchant_wallet |-> cfg.merchantWallet,
     customer_email |-> params.customerEmail,
     metadata |-> [sdk |-> Text("@solpay/x402-sdk"), sdk_version |-> Text("1.0.0")],
     x402_context |-> [facilitator_id |-> cfg.facilitatorId,
                       network |-> Undefined,
                       resource |-> PaymentIntentsUrl(cfg)],
     success_url |-> params.successUrl,
     cancel_url |-> params.cancelUrl]

\* the body createPaymentIntent posts; JSON.stringify leaves out a property
\* whose value is undefined
RequestBody(cfg, params) ==
    [amount |-> params.amount,
     asset |-> params.asset,
     merchant_wallet |-> cfg.merchantWallet,
     customer_email |-> params.customerEmail,
     metadata |-> [sdk |-> Text("@solpay/x402-sdk"), sdk_version |-> Text("1.0.0")],
     x402_context |-> [facilitator_id |-> cfg.facilitatorId,
                       network |-> cfg.network,
                       resource |-> PaymentIntentsUrl(cfg)],
     success_url |-> params.successUrl,
     cancel_url |-> params.cancelUrl]

\* a || b
OrElse(a, b) == IF Truthy(a) THEN a ELSE b

\* the rest of createPaymentIntent: what it makes of the response
createPaymentIntentResult(response) ==
    IF response.fetch = "rejects" THEN Throw(response.text)
    ELSE IF ~response.ok THEN
        LET errorData == IF response.json.kind = "throw"
                         THEN [error |-> Text("Unknown error")]
                         ELSE response.json.value
        IN  Throw(OrElse(errorData.error,
                         Str(<<"HTTP ", response.status, ": ", response.statusText>>)).v)
    ELSE response.json

\* pay, from the response of the one request it sends
pay(cfg, params, response) ==
    LET created == createPaymentIntentResult(response)
    IN  IF created.kind = "throw" THEN created
        ELSE
        LET intent == created.value
        IN  Return(
            [intentId |-> intent.id,
             paymentUrl |-> OrElse(intent.payment_url,
                                   Str(cfg.apiBase.v \o <<"/checkout/">> \o intent.id.v)),
             status |-> intent.status,
             amount |-> [requested |-> params.amount,
                         total |-> OrElse(intent.amount_required, params.amount),
                         fees |-> OrElse(intent.fees_total, Num(FALSE, 0)),
                         net |-> OrElse(intent.merchant_receives, params.amount)],
             receipt |-> intent.receipt,
             settlement |-> intent.settlement,
             x402 |-> intent.x402_context])

ApiBase == Text("https://api.solpay.cash")
Wallet == Text("WALLET")
Networks == {Text("solana:devnet"), Text("solana:mainnet")}

\* the configurations a caller may pass, well-formed or not
Configs ==
    {[apiBase |-> ApiBase, merchantWallet |-> Wallet],
     [apiBase |-> ApiBase, merchantWallet |-> Wallet, network |-> Undefined],
     [apiBase |-> ApiBase, merchantWallet |-> Wallet, network |-> Str(<<>>)],
     [merchantWallet |-> Wallet, network |-> Text("solana:devnet")],
     [apiBase |-> ApiBase, network |-> Text("solana:devnet")]}
    \cup {[apiBase |-> ApiBase, merchantWallet |-> Wallet, network |-> n] :
            n \in Networks}
    \cup {[apiBase |-> ApiBase, merchantWallet |-> Wallet, network |-> n,
           facilitatorId |-> f] :
            n \in Networks, f \in {Undefined, Text("facilitator.example")}}

\* payments of one token and of two
PayParams ==
    {[amount |-> Num(FALSE, n), asset |-> Text("USDC"), customerEmail |-> Undefined,
      successUrl |-> Undefined, cancelUrl |-> Undefined] : n \in {1, 2}}

\* confirmPayment reporting the status it expects
confirmPaymentAssumingSuccess(cfg, response) ==
    LET got == createPaymentIntentResult(response)
    IN  IF got.kind = "throw" THEN got
        ELSE Return([intentId |-> got.value.id, status |-> Text("succeeded")])

\* confirmPayment, from the response of the one request it sends
confirmPayment(cfg, response) ==
    IF response.fetch = "rejects" THEN Throw(response.text)
    ELSE IF ~response.ok THEN
        LET errorData == IF response.json.kind = "throw"
                         THEN [error |-> Text("Unknown error")]
                         ELSE response.json.value
        IN  Throw(OrElse(errorData.error,
                         Str(<<"HTTP ", response.status, ": ", response.statusText>>)).v)
    ELSE IF response.json.kind = "throw" THEN response.json
    ELSE
        LET intent == response.json.value
        IN  Return(
            [intentId |-> intent.id,
             paymentUrl |-> OrElse(intent.payment_url,
                                   Str(cfg.apiBase.v \o <<"/checkout/">> \o intent.id.v)),
             status |-> intent.status,
             amount |-> [requested |-> OrElse(intent.amount_requested, Num(FALSE, 0)),
                         total |-> OrElse(intent.amount_required, Num(FALSE, 0)),
                         fees |-> OrElse(intent.fees_total, Num(FALSE, 0)),
                         net |-> OrElse(intent.merchant_receives, Num(FALSE, 0))],
             receipt |-> intent.receipt,
             settlement |-> intent.settlement,
             x402 |-> intent.x402_context])

\* the check of response.ok left out
getPaymentIntentIgnoringStatus(response) ==
    IF response.fetch = "rejects" THEN Throw(response.text) ELSE response.json

\* getPaymentIntent, from the response of the one request it sends
getPaymentIntent(response) ==
    IF response.fetch = "rejects" THEN Throw(response.text)
    ELSE IF ~response.ok THEN
        LET errorData == IF response.json.kind = "throw"
                         THEN [error |-> Text("Unknown error")]
                         ELSE response.json.value
        IN  Throw(OrElse(errorData.error,
                         Str(<<"HTTP ", response.status, ": ", response.statusText>>)).v)
    ELSE response.json

(***************************************************************************)
(* The remote service: its payment intents and their statuses.             *)
(***************************************************************************)
IntentId(n) == Str(<<"pi_", Digit(n)>>)

Statuses == {"pending", "processing", "succeeded", "failed"}

\* the statuses an intent may take next
Successors(status) ==
    CASE status = "pending" -> {"processing"}
      [] status = "processing" -> {"succeeded", "failed"}
      [] OTHER -> {}

\* the amounts the service puts into an intent: none, or the amount
\* required, the fees and what the merchant receives
Quote(required, fees, receives) ==
    [required |-> required, fees |-> fees, receives |-> receives]

Quotes ==
    {Quote(Undefined, Undefined, Undefined),
     Quote(Num(FALSE, 1), Num(FALSE, 0), Num(FALSE, 1)),
     Quote(Num(FALSE, 1), Num(FALSE, 1), Num(FALSE, 0))}

Intent(n, status, quote) ==
    [id |-> IntentId(n), status |-> Text(status), payment_url |-> Undefined,
     amount_requested |-> Num(FALSE, 1),
     amount_required |-> quote.required, fees_total |-> quote.fees,
     merchant_receives |-> quote.receives, receipt |-> Undefined,
     settlement |-> Undefined, x402_context |-> Undefined]

\* a request that gets no 2xx response
Failures ==
    {NetworkError,
     [fetch |-> "resolves", ok |-> FALSE, status |-> "400",
      statusText |-> "Bad Request",
      json |-> Return([error |-> Text("network is required")])],
     [fetch |-> "resolves", ok |-> FALSE, status |-> "500",
      statusText |-> "Internal Server Error", json |-> Return([error |-> Undefined])]}

\* the receipt of a payment of 1, and the same with the amount changed
PaidReceipt ==
    Set(Obj(<<Member(KeyAmount, Num(FALSE, 1))>>), KeySha256Hash,
        Str(computeReceiptHash(Obj(<<Member(KeyAmount, Num(FALSE, 1))>>))))
ForgedReceipt == Set(PaidReceipt, KeyAmount, Num(FALSE, 2))

ClientInit ==
    /\ doc \in {PaidReceipt, ForgedReceipt}
    /\ orig = doc
    /\ stage = "issued"
    /\ edit = "none"
    /\ outcome = NoCall
    /\ res = NoCall
    /\ config = NoClient
    /\ sent = <<>>
    /\ last = NoCall
    /\ call = NoCall
    /\ remote = NoIntent
    /\ verifies = 0
    /\ requests = 0
    /\ examined = NoComparison
    /\ route = NoRoute

\* new SolPayX402(given)
Construct ==
    \E given \in Configs :
        /\ config = NoClient
        /\ last' = constructor(given)
        /\ call' = Constructed(given)
        /\ config' = IF last'.kind = "return" THEN last'.value ELSE NoClient
        /\ requests' = 0
        /\ UNCHANGED <<doc, orig, stage, edit, outcome, res, sent, remote, verifies,
                       examined, route>>

\* await client.pay(params): the service creates a pending intent, or the
\* request fails
Pay ==
    \E params \in PayParams :
    \E response \in Failures
                    \cup {Fetched(Intent(remote.id + 1, "pending", q)) : q \in Quotes} :
        /\ config # NoClient
        /\ Len(sent) < MaxPays
        /\ sent' = sent \o [i \in 1..Fetches("pay", response) |->
                                RequestBody(config, params)]
        /\ last' = pay(config, params, response)
        /\ call' = Called("pay", response)
        /\ requests' = Fetches("pay", response)
        /\ remote' = IF Succeeded(response)
                     THEN [id |-> remote.id + 1, status |-> "pending"]
                     ELSE remote
        /\ UNCHANGED <<doc, orig, stage, edit, outcome, res, config, verifies, examined,
                       route>>

\* await client.confirmPayment(intentId, signature) for the intent created
\* last: the service keeps or advances its status and answers with it, or
\* the request fails
ConfirmPayment ==
    \E status \in {remote.status} \cup Successors(remote.status) :
    \E response \in Failures
                    \cup {Fetched(Intent(remote.id, status, Quote(Num(FALSE, 1), Num(FALSE, 0), Num(FALSE, 1))))} :
        /\ config # NoClient
        /\ remote.id > 0
        /\ last' = confirmPayment(config, response)
        /\ call' = Called("confirmPayment", response)
        /\ requests' = Fetches("confirmPayment", response)
        /\ remote' = IF Succeeded(response) THEN [remote EXCEPT !.status = status]
                     ELSE remote
        /\ UNCHANGED <<doc, orig, stage, edit, outcome, res, config, sent, verifies,
                       examined, route>>

\* await client.getPaymentIntent(intentId) for the intent created last
GetPaymentIntent ==
    \E response \in Failures
                    \cup {Fetched(Intent(remote.id, remote.status, Quote(Num(FALSE, 1), Num(FALSE, 0), Num(FALSE, 1))))} :
        /\ config # NoClient
        /\ remote.id > 0
        /\ last' = getPaymentIntent(response)
        /\ call' = Called("getPaymentIntent", response)
        /\ requests' = Fetches("getPaymentIntent", response)
        /\ UNCHANGED <<doc, orig, stage, edit, outcome, res, config, sent, remote,
                       verifies, examined, route>>

\* the service moves the intent on
Advance ==
    /\ remote.id > 0
    /\ \E status \in Successors(remote.status) :
        remote' = [remote EXCEPT !.status = status]
    /\ UNCHANGED <<doc, orig, stage, edit, outcome, res, config, sent, last, call,
                   verifies, requests, examined, route>>

\* await client.verifyReceipt(receiptUrl), any number of times
VerifyAgain ==
    \E r \in {HttpError, Fetched(doc)} :
        /\ config # NoClient
        /\ verifies < MaxVerifies
        /\ outcome' = r
        /\ res' = verifyReceipt(r)
        /\ verifies' = verifies + 1
        /\ requests' = Fetches("verifyReceipt", r)
        /\ examined' = verifyReceiptExamined(r)
        /\ UNCHANGED <<doc, orig, stage, edit, config, sent, last, call, remote, route>>

ClientNext ==
    \/ Construct
    \/ Pay
    \/ ConfirmPayment
    \/ GetPaymentIntent
    \/ Advance
    \/ VerifyAgain

ClientSpec == ClientInit /\ [][ClientNext]_vars

(***************************************************************************)
(* The PHP client: Client::__construct, pay, createPaymentIntent, request. *)
(* A key that is not set reads as undefined; in a payload a member that is *)
(* undefined is a key never set.                                           *)
(***************************************************************************)
\* $array[$key], undefined when the key is not set
Item(array, key) == IF key \in DOMAIN array THEN array[key] ELSE Undefined

\* $a ?? $b
Coalesce(a, b) == IF isset(a) THEN a ELSE b

\* rtrim($s, '/'), on a string written as fragments
rtrim(s) ==
    IF s.v # <<>> /\ s.v[Len(s.v)] = "/" THEN Str(SubSeq(s.v, 1, Len(s.v) - 1)) ELSE s

validNetworks == {Text("mainnet-beta"), Text("devnet"), Text("testnet")}

\* the networks the documentation of the PHP client names
DocumentedNetworks == {Text("solana:devnet"), Text("solana:mainnet")}

\* new Client($config)
PhpConstructor(given) ==
    IF empty(Item(given, "api_base"))
        THEN Throw(<<"Configuration error: api_base is required">>)
    ELSE IF empty(Item(given, "merchant_wallet"))
        THEN Throw(<<"Configuration error: merchant_wallet is required">>)
    ELSE IF empty(Item(given, "network"))
        THEN Throw(<<"Configuration error: network is required">>)
    ELSE IF Item(given, "network") \notin validNetworks
        THEN Throw(<<"Configuration error: network must be one of: ",
                     "mainnet-beta, devnet, testnet">>)
    ELSE Return([apiBase |-> rtrim(Item(given, "api_base")),
                 merchantWallet |-> Item(given, "merchant_wallet"),
                 network |-> Item(given, "network"),
                 facilitatorId |-> Coalesce(Item(given, "facilitator_id"), Null),
                 facilitatorUrl |-> Coalesce(Item(given, "facilitator_url"), Null),
                 apiKey |-> Coalesce(Item(given, "api_key"), Null),
                 debug |-> Coalesce(Item(given, "debug"), Bool(FALSE))])

\* is_numeric($x): the strings of the model are not numeric
is_numeric(x) == x.t = "number"

\* the validation of pay
PhpPayValidation(params) ==
    LET amount == Item(params, "amount")
    IN  IF ~isset(amount) \/ ~is_numeric(amount) \/ amount.neg \/ amount.mag = 0
            THEN Throw(<<"Invalid parameter: amount must be a positive number">>)
        ELSE IF empty(Item(params, "token"))
            THEN Throw(<<"Invalid parameter: token is required">>)
        ELSE NoCall

\* a member of the payload set only if the parameter is not empty
IfNotEmpty(x) == IF empty(x) THEN Undefined ELSE x
\* a member of the payload set only if the property is not null
IfNotNull(x) == IF x = Null THEN Undefined ELSE x

\* $payload of createPaymentIntent
PhpPayload(cfg, params) ==
    [merchant_wallet |-> cfg.merchantWallet,
     amount |-> Item(params, "amount"),     \* (float): the same number
     token |-> Item(params, "token"),
     network |-> cfg.network,
     reference |-> IfNotEmpty(Item(params, "reference")),
     label |-> IfNotEmpty(Item(params, "label")),
     message |-> IfNotEmpty(Item(params, "message")),
     memo |-> IfNotEmpty(Item(params, "memo")),
     metadata |-> IfNotEmpty(Item(params, "metadata")),
     facilitator_id |-> IfNotNull(cfg.facilitatorId),
     facilitator_url |-> IfNotNull(cfg.facilitatorUrl)]

\* request, from what curl_exec and json_decode give
PhpRequest(response) ==
    IF ~response.curl THEN Throw(<<"Request failed: ", response.error>>)
    ELSE IF response.json.kind = "throw"
        THEN Throw(<<"Invalid JSON response: ">> \o response.json.message.text)
    ELSE IF response.httpCode >= 400 THEN
        LET responseData == response.json.value
            errorMessage == Coalesce(Item(responseData, "error"),
                                     Coalesce(Item(responseData, "message"),
                                              Text("Unknown error")))
        IN  Throw(<<"API error (">> \o Digits(response.httpCode) \o <<"): ">>
                  \o errorMessage.v)
    ELSE response.json

\* pay, from the response of the request it sends, if it sends one
PhpPay(cfg, params, response) ==
    LET invalid == PhpPayValidation(params)
    IN  IF invalid.kind = "throw" THEN invalid ELSE PhpRequest(response)

\* the validation of confirmPayment
PhpConfirmValidation(intentId, signature) ==
    IF empty(intentId) THEN Throw(<<"Invalid parameter: intentId is required">>)
    ELSE IF empty(signature) THEN Throw(<<"Invalid parameter: signature is required">>)
    ELSE NoCall

PhpConfirmPayment(intentId, signature, response) ==
    LET invalid == PhpConfirmValidation(intentId, signature)
    IN  IF invalid.kind = "throw" THEN invalid ELSE PhpRequest(response)

\* the validation of getPaymentIntent
PhpGetValidation(intentId) ==
    IF empty(intentId) THEN Throw(<<"Invalid parameter: intentId is required">>)
    ELSE NoCall

PhpGetPaymentIntent(intentId, response) ==
    LET invalid == PhpGetValidation(intentId)
    IN  IF invalid.kind = "throw" THEN invalid ELSE PhpRequest(response)

\* the request sent before the parameters are validated
PhpRequestsUnvalidated(invalid) == 1

\* the requests one call of pay, confirmPayment or getPaymentIntent issues:
\* none when its validation throws, otherwise the one of request()
PhpRequests(invalid) == IF invalid.kind = "throw" THEN 0 ELSE 1

PhpConfigs ==
    {[merchant_wallet |-> Wallet, network |-> Text("devnet")],
     [api_base |-> ApiBase, network |-> Text("devnet")],
     [api_base |-> ApiBase, merchant_wallet |-> Wallet],
     [api_base |-> ApiBase, merchant_wallet |-> Wallet, network |-> Str(<<>>)],
     [api_base |-> Str(<<"https://api.solpay.cash", "/">>), merchant_wallet |-> Wallet,
      network |-> Text("testnet")]}
    \cup {[api_base |-> ApiBase, merchant_wallet |-> Wallet, network |-> n] :
            n \in validNetworks \cup DocumentedNetworks}
    \cup {[api_base |-> ApiBase, merchant_wallet |-> Wallet, network |-> n,
           facilitator_id |-> Text("facilitator.payai.network")] :
            n \in {Text("devnet"), Text("solana:devnet")}}

PhpPayParams ==
    {[amount |-> Num(FALSE, n), token |-> Text("USDC")] : n \in 0..MaxAmount}
    \cup {[amount |-> Num(FALSE, 1), asset |-> Text("USDC")],
          [amount |-> Num(TRUE, 1), token |-> Text("USDC")],
          [amount |-> Null, token |-> Text("USDC")],
          [amount |-> Num(FALSE, 1), token |-> Str(<<>>)],
          [amount |-> Text("ten"), token |-> Text("USDC")],
          [token |-> Text("USDC")],
          [amount |-> Num(FALSE, 1), token |-> Text("USDC"), memo |-> Text("order 1")]}

PhpResponses ==
    {[curl |-> FALSE, error |-> "Could not resolve host"],
     [curl |-> TRUE, httpCode |-> 200, json |-> Throw(<<"Syntax error">>)],
     [curl |-> TRUE, httpCode |-> 400,
      json |-> Return([error |-> Text("network is required")])],
     [curl |-> TRUE, httpCode |-> 500, json |-> Return([message |-> Text("down")])],
     [curl |-> TRUE, httpCode |-> 201,
      json |-> Return([intent_id |-> Text("pi_1"), status |-> Text("pending")])]}

IntentIds == {Str(<<>>), Text("0"), Text("pi_1")}
Signatures == {Str(<<>>), Text("5VERv8NMvzbJ")}

PhpInit ==
    /\ doc = Null
    /\ orig = Null
    /\ stage = "draft"
    /\ edit = "none"
    /\ outcome = NoCall
    /\ res = NoCall
    /\ config = NoClient
    /\ sent = <<>>
    /\ last = NoCall
    /\ call = NoCall
    /\ remote = NoIntent
    /\ verifies = 0
    /\ requests = 0
    /\ examined = NoComparison
    /\ route = NoRoute

\* new Client($config)
PhpConstruct ==
    \E given \in PhpConfigs :
        /\ config = NoClient
        /\ last' = PhpConstructor(given)
        /\ call' = Constructed(given)
        /\ config' = IF last'.kind = "return" THEN last'.value ELSE NoClient
        /\ requests' = 0
        /\ UNCHANGED <<doc, orig, stage, edit, outcome, res, sent, remote, verifies,
                       examined, route>>

\* $client->pay($params): the request is sent if the parameters are valid
PhpPayCall ==
    \E params \in PhpPayParams : \E response \in PhpResponses :
        /\ config # NoClient
        /\ Len(sent) < MaxPays
        /\ requests' = PhpRequests(PhpPayValidation(params))
        /\ sent' = sent \o [i \in 1..requests' |-> PhpPayload(config, params)]
        /\ last' = PhpPay(config, params, response)
        /\ call' = CalledWith("pay", params, response)
        /\ UNCHANGED <<doc, orig, stage, edit, outcome, res, config, remote, verifies,
                       examined, route>>

\* $client->confirmPayment($intentId, $signature)
PhpConfirmCall ==
    \E intentId \in IntentIds : \E signature \in Signatures :
    \E response \in PhpResponses :
        /\ config # NoClient
        /\ requests' = PhpRequests(PhpConfirmValidation(intentId, signature))
        /\ last' = PhpConfirmPayment(intentId, signature, response)
        /\ call' = CalledWith("confirmPayment",
                              [intentId |-> intentId, signature |-> signature], response)
        /\ UNCHANGED <<doc, orig, stage, edit, outcome, res, config, sent, remote,
                       verifies, examined, route>>

\* $client->getPaymentIntent($intentId)
PhpGetCall ==
    \E intentId \in IntentIds : \E response \in PhpResponses :
        /\ config # NoClient
        /\ requests' = PhpRequests(PhpGetValidation(intentId))
        /\ last' = PhpGetPaymentIntent(intentId, response)
        /\ call' = CalledWith("getPaymentIntent", [intentId |-> intentId], response)
        /\ UNCHANGED <<doc, orig, stage, edit, outcome, res, config, sent, remote,
                       verifies, examined, route>>

PhpNext ==
    \/ PhpConstruct
    \/ PhpPayCall
    \/ PhpConfirmCall
    \/ PhpGetCall

PhpSpec == PhpInit /\ [][PhpNext]_vars

(***************************************************************************)
(* Properties of receipt verification (specification Spec).                *)
(***************************************************************************)
\* the last verifyReceipt call fetched and parsed the document served
FetchedDoc == outcome = Fetched(doc)
FetchFailures == {NetworkError, HttpError, BadBody}
\* the result the last call returned, and the result for the document
\* served before the alteration
Result == res.value
Before == verifyReceipt(Fetched(orig)).value
Empty == Str(<<>>)
Message(text) == [t |-> "message", text |-> text]
MissingHashMessage == Message(<<"Receipt does not contain sha256_hash field">>)
HasDigestMember(d) == HasOwn(d, KeySha256Hash) \/ HasOwn(d, KeyHash)
\* a == b for two numbers: the two zeros are one number
SameNumber(a, b) == a.mag = b.mag /\ (a.neg = b.neg \/ a.mag = 0)

\* C1: a receipt that verifies ok, with one non-digest member changed, added,
\* removed or renamed, verifies with ok = false.
C1_TamperSensitivity ==
    (/\ stage = "altered"
     /\ edit \in {"value", "add", "remove", "rename"}
     /\ FetchedDoc
     /\ Before.ok)
    => (res.kind = "return" /\ ~Result.ok)

C3_RoundTrip ==
    (stage = "issued" /\ FetchedDoc)
    => /\ res.kind = "return"
       /\ Result.ok
       /\ Result.error = Undefined
       /\ Result.computed_hash = Result.reported_hash
       /\ Result.reported_hash = Prop(doc, KeySha256Hash)

C3_Witness ==
    /\ stage = "issued"
    /\ FetchedDoc
    /\ HasOwn(doc, KeyHash)
    /\ HasOwn(doc, KeySettlement)
    /\ Result.ok

\* C4 as stated: two documents that differ only in the value of sha256_hash,
\* whatever the two values, get the same computed digest.
C4_DigestFieldExclusion ==
    (stage = "altered" /\ edit = "digest" /\ FetchedDoc)
    => Result.computed_hash = Before.computed_hash

\* the document has a truthy sha256_hash or a truthy hash
HasReportedHash(d) ==
    \E key \in DigestKeys : HasOwn(d, key) /\ Truthy(Prop(d, key))

\* C4 as amended: two documents that differ only in the value of sha256_hash
\* get the same computed digest whenever both have a reported digest (a
\* truthy sha256_hash or a truthy hash); one that has none gets the error
\* result, whose computed digest is empty.
C4_DigestExclusionWhenReported ==
    (stage = "altered" /\ edit = "digest" /\ FetchedDoc)
    => /\ (HasReportedHash(doc) /\ HasReportedHash(orig))
            => (/\ Result.error = Undefined
                /\ Result.computed_hash = Before.computed_hash
                /\ Result.computed_hash # Empty)
       /\ ~HasReportedHash(doc)
            => (Result.error = MissingHashMessage /\ Result.computed_hash = Empty)

C4_Witness ==
    /\ stage = "altered"
    /\ edit = "digest"
    /\ FetchedDoc
    /\ Prop(doc, KeySha256Hash) = Empty
    /\ HasReportedHash(doc)
    /\ Before.ok
    /\ ~Result.ok
    /\ Result.computed_hash = Before.computed_hash

\* C6: verifyReceipt returns a result that has a boolean ok for every
\* document, object or not, and for every failure of the fetch; it throws
\* nothing.
C6_NeverThrows ==
    outcome # NoCall => (res.kind = "return" /\ Result.ok \in BOOLEAN)

C6_Witness ==
    /\ outcome = Fetched(Null)
    /\ res.kind = "return"
    /\ ~Result.ok

\* the error result with the message given
IsErrorResult(message) ==
    /\ res.kind = "return"
    /\ Result.ok = FALSE
    /\ Result.computed_hash = Empty
    /\ Result.reported_hash = Empty
    /\ Result.error = message

\* C7 as stated: an object with neither sha256_hash nor hash gets ok = false,
\* both digests empty and the error "missing digest field".
C7_MissingDigestField ==
    (FetchedDoc /\ doc.t = "object" /\ ~HasDigestMember(doc))
    => IsErrorResult(Message(<<"missing digest field">>))

\* C7 as amended: such an object gets ok = false, both digests empty and the
\* error "Receipt does not contain sha256_hash field".
C7_MissingDigestResult ==
    (FetchedDoc /\ doc.t = "object" /\ ~HasDigestMember(doc))
    => IsErrorResult(MissingHashMessage)

C7_Witness ==
    /\ FetchedDoc
    /\ doc.t = "object"
    /\ ~HasDigestMember(doc)
    /\ HasOwn(doc, KeyAmount)
    /\ IsErrorResult(MissingHashMessage)

\* C8 as stated: a document that is no object gets ok = false and the error
\* "invalid receipt format".
C8_InvalidReceiptFormat ==
    (FetchedDoc /\ doc.t # "object")
    => IsErrorResult(Message(<<"invalid receipt format">>))

\* C8 as amended: a document that is no object gets ok = false and both
\* digests empty; the error is the TypeError of reading sha256_hash from
\* null for null, and "Receipt does not contain sha256_hash field" for an
\* array, a string, a number or a boolean.
C8_NonObjectResult ==
    (FetchedDoc /\ doc.t # "object")
    => IsErrorResult(
        IF doc = Null
        THEN Message(<<"Cannot read properties of null (reading '",
                       KeySha256Hash, "')">>)
        ELSE MissingHashMessage)

C8_Witness ==
    /\ FetchedDoc
    /\ doc.t = "array"
    /\ doc.v # <<>>
    /\ IsErrorResult(MissingHashMessage)

FailureMessage(failure) ==
    CASE failure = NetworkError -> Message(NetworkError.text)
      [] failure = HttpError -> Message(<<"Failed to fetch receipt: ", "Not Found">>)
      [] failure = BadBody -> BadBody.json.message

AmountAltered ==
    /\ stage = "altered"
    /\ edit = "value"
    /\ FetchedDoc
    /\ Before.ok
    /\ HasOwn(doc, KeyAmount)
    /\ Prop(doc, KeyAmount).t = "number"
    /\ Prop(orig, KeyAmount).t = "number"
    /\ ~SameNumber(Prop(doc, KeyAmount), Prop(orig, KeyAmount))

Canonicalized == call # NoCall /\ call.method = "canonicalJSON"
Hashed == call # NoCall /\ call.method = "computeReceiptHash"
Chars(x) == res.value = Str(x)

\* {"amount":10.0,"merchant":"ABC123"}
ExampleCanonical ==
    <<"{", "\"", "a", "m", "o", "u", "n", "t", "\"", ":", "1", "0", ".", "0", ",",
      "\"", "m", "e", "r", "c", "h", "a", "n", "t", "\"", ":",
      "\"", "A", "B", "C", "1", "2", "3", "\"", "}">>

\* {"amount":10,"merchant":"ABC123"}
ExampleAsSerialized ==
    <<"{", "\"", "a", "m", "o", "u", "n", "t", "\"", ":", "1", "0", ",",
      "\"", "m", "e", "r", "c", "h", "a", "n", "t", "\"", ":",
      "\"", "A", "B", "C", "1", "2", "3", "\"", "}">>

\* C12: the digest computed for the document
\* {"amount":10.0,"merchant":"ABC123","sha256_hash":"xxx"} is the digest of
\* the canonical form {"amount":10.0,"merchant":"ABC123"}: the amount keeps
\* the rendering 10.0.
C12_FractionKept ==
    (doc = ExampleReceipt /\ Hashed) => Chars(Sha256Hex(ExampleCanonical))

\* what the code computes for that document: the digest of
\* {"amount":10,"merchant":"ABC123"}, both in TypeScript and in PHP
C12_FractionDropped ==
    /\ (doc = ExampleReceipt /\ Hashed) => Chars(Sha256Hex(ExampleAsSerialized))
    /\ (doc = Delete(ExampleReceipt, KeySha256Hash) /\ last # NoCall)
        => last.value = Str(ExampleAsSerialized)

ItemsExample == Obj(<<Member(KeyItems, Items312)>>)
\* {"items":[3,1,2]}
ItemsCanonical ==
    <<"{", "\"", "i", "t", "e", "m", "s", "\"", ":", "[", "3", ",", "1", ",", "2",
      "]", "}">>

\* C13: an array is serialized with its elements in their order, so that
\* {"items":[3,1,2]} gives {"items":[3,1,2]}, and two values that differ
\* only in the element order of an array have different canonical forms.
C13_ArrayOrderSignificant ==
    Canonicalized
    => /\ doc = ItemsExample => Chars(ItemsCanonical)
       /\ edit = "permute" => res.value # canonicalJSON(orig)

NotFinite == {NaN, Infinity(FALSE), Infinity(TRUE)}
NoValue == {Undefined, Function}
NullText == <<"n", "u", "l", "l">>
UndefinedText == <<"u", "n", "d", "e", "f", "i", "n", "e", "d">>
AmountKeyText == <<"{", "\"", "a", "m", "o", "u", "n", "t", "\"", ":">>

C20_SameCanonicalForm ==
    (Canonicalized /\ last # NoCall /\ IsJson(doc)) => res.value = last.value

(***************************************************************************)
(* Properties of the client (specification ClientSpec).                    *)
(***************************************************************************)
\* C5: a client exists only with a non-empty network, and every creation
\* request sent carries in x402_context.network that network.
C5_NetworkOnEveryRequest ==
    /\ config # NoClient => Truthy(config.network)
    /\ \A i \in 1..Len(sent) :
        /\ config # NoClient
        /\ sent[i].x402_context.network # Undefined
        /\ Truthy(sent[i].x402_context.network)
        /\ sent[i].x402_context.network = config.network

C5_Witness ==
    /\ Len(sent) >= 2
    /\ sent[1].amount # sent[2].amount
    /\ sent[2].x402_context.network = Text("solana:mainnet")
    /\ last.kind = "return"

\* the last call was pay, confirmPayment or getPaymentIntent
IntentCall ==
    call # NoCall /\ call.method \in {"pay", "confirmPayment", "getPaymentIntent"}

C17_ApiAmounts ==
    (IntentCall /\ call.method = "pay" /\ last.kind = "return")
    => LET intent == call.response.json.value
           amount == last.value.amount
       IN  /\ intent.amount_required # Undefined => amount.total = intent.amount_required
           /\ intent.fees_total # Undefined => amount.fees = intent.fees_total
           /\ intent.merchant_receives # Undefined
                => amount.net = intent.merchant_receives

\* what the code does: a supplied amount other than 0 is returned as it is,
\* a supplied 0 total or net is replaced by the amount requested
C17_ZeroReplaced ==
    (IntentCall /\ call.method = "pay" /\ last.kind = "return")
    => LET intent == call.response.json.value
           amount == last.value.amount
           requested == sent[Len(sent)].amount
       IN  /\ Truthy(intent.amount_required) => amount.total = intent.amount_required
           /\ Truthy(intent.fees_total) => amount.fees = intent.fees_total
           /\ Truthy(intent.merchant_receives) => amount.net = intent.merchant_receives
           /\ intent.merchant_receives = Num(FALSE, 0) => amount.net = requested
           /\ intent.fees_total = Num(FALSE, 0) => amount.fees = Num(FALSE, 0)

\* the status and the intent a returned result reports
StatusOf(result) == result.value.status.v[1]
IntentOf(method, result) ==
    IF method = "getPaymentIntent" THEN result.value.id ELSE result.value.intentId

\* status b is status a or comes after it
Follows(a, b) ==
    \/ a = b
    \/ b \in Successors(a)
    \/ \E c \in Successors(a) : b \in Successors(c)

\* C18: the status pay, confirmPayment and getPaymentIntent return is the
\* status of the response, one of pending, processing, succeeded and failed,
\* and the statuses returned for one intent by successive calls follow
\* pending, processing, succeeded or failed: none goes back and a succeeded
\* or failed intent is never reported otherwise afterwards.
C18_StatusFromService ==
    /\ []((IntentCall /\ last.kind = "return")
            => /\ last.value.status = call.response.json.value.status
               /\ StatusOf(last) \in Statuses)
    /\ [][(/\ IntentCall
           /\ IntentCall'
           /\ last.kind = "return"
           /\ last'.kind = "return"
           /\ IntentOf(call.method, last) = IntentOf(call'.method, last'))
          => Follows(StatusOf(last), StatusOf(last'))]_vars

C18_Witness ==
    /\ IntentCall
    /\ call.method = "getPaymentIntent"
    /\ last.kind = "return"
    /\ StatusOf(last) = "failed"
    /\ IntentOf(call.method, last) = IntentId(2)
    /\ remote = [id |-> 2, status |-> "failed"]

\* the message of the error thrown for a request that got no 2xx response
ErrorOf(response) ==
    IF response.fetch = "rejects" THEN Message(response.text)
    ELSE IF response.status = "400" THEN Message(<<"network is required">>)
    ELSE Message(<<"HTTP ", "500", ": ", "Internal Server Error">>)

\* C19: pay, confirmPayment and getPaymentIntent throw when the request
\* fails or the response is no 2xx response, with the error of the response
\* or "HTTP <status>: <statusText>" as message, and return a result only
\* from a 2xx response.
C19_ThrowOnFailure ==
    IntentCall
    => /\ ~Succeeded(call.response)
            => (last.kind = "throw" /\ last.message = ErrorOf(call.response))
       /\ last.kind = "return" => Succeeded(call.response)

C19_Witness ==
    /\ IntentCall
    /\ call.method = "getPaymentIntent"
    /\ call.response.fetch = "resolves"
    /\ call.response.status = "500"
    /\ last.kind = "throw"
    /\ last.message = Message(<<"HTTP ", "500", ": ", "Internal Server Error">>)

(***************************************************************************)
(* Properties of the PHP client (specification PhpSpec).                   *)
(***************************************************************************)
\* the payload has the member
HasMember(payload, key) == key \in DOMAIN payload /\ payload[key] # Undefined

\* C15: every creation request of the PHP client carries the network of the
\* client inside its x402_context member.
C15_PhpNetworkInContext ==
    \A i \in 1..Len(sent) :
        /\ HasMember(sent[i], "x402_context")
        /\ HasMember(sent[i].x402_context, "network")
        /\ sent[i].x402_context.network = config.network

\* what the code does: the network is a member of the payload itself
C15_PhpNetworkTopLevel ==
    \A i \in 1..Len(sent) :
        /\ ~HasMember(sent[i], "x402_context")
        /\ sent[i].network = config.network

\* the last call constructed a client from a configuration complete but
\* for the name of its network
Documented ==
    /\ call # NoCall
    /\ call.method = "constructor"
    /\ ~empty(Item(call.given, "api_base"))
    /\ ~empty(Item(call.given, "merchant_wallet"))
    /\ Item(call.given, "network") \in DocumentedNetworks

\* C16: the constructor of the PHP client given the network solana:devnet or
\* solana:mainnet succeeds, and pay then sends that network.
C16_PhpDocumentedNetworks ==
    /\ Documented
        => (/\ last.kind = "return"
            /\ config # NoClient
            /\ config.network = call.given.network)
    /\ \A i \in 1..Len(sent) : sent[i].network = config.network

\* what the code does: it throws for the two documented names
C16_PhpDocumentedRefused ==
    Documented
    => /\ last.kind = "throw"
       /\ last.message = Message(<<"Configuration error: network must be one of: ",
                                   "mainnet-beta, devnet, testnet">>)
       /\ config = NoClient

(***************************************************************************)
(* Properties of the digest members (specification Spec).                  *)
(***************************************************************************)
\* the last call was verifyReceipt of the PHP client
PhpVerified == call # NoCall /\ call.method = "verifyReceipt" /\ last # NoCall
AliasAltered == stage = "altered" /\ edit \in {"alias", "digest"}
WithoutAliases(d) == Delete(Delete(d, KeySha256Hash), KeyHash)

\* C21: sha256_hash and hash are both left out of the hashed document: a
\* document and the same document with sha256_hash or hash added, changed or
\* removed have the same computed digest, the one of the document without
\* the two, whichever of the two supplies the reported digest; the PHP client
\* reads the reported digest from receipt_hash only and leaves receipt_hash
\* out of the hashed document.
C21_AliasesExcluded ==
    /\ AliasAltered
        => /\ computeReceiptHash(doc) = computeReceiptHash(orig)
           /\ computeReceiptHash(doc) = Sha256Hex(canonicalJSON(WithoutAliases(doc)).v)
           /\ (FetchedDoc /\ Result.error = Undefined)
                => /\ Result.computed_hash = Str(computeReceiptHash(orig))
                   /\ Before.error = Undefined
                        => Result.computed_hash = Before.computed_hash
    /\ (stage = "altered" /\ edit = "receipt_hash")
        => /\ PhpComputeReceiptHash(json_decode(doc))
                = PhpComputeReceiptHash(json_decode(orig))
           /\ PhpVerified
                => LET reported == Prop(doc, KeyReceiptHash)
                       computed == Str(PhpComputeReceiptHash(json_decode(orig)))
                   IN  \/ reported.t # "string" /\ reported # Null /\ last.kind = "throw"
                       \/ reported = Null /\ last = Return(Bool(FALSE))
                       \/ reported.t = "string" /\ last = Return(Bool(reported = computed))

\* the reported digest comes from hash, sha256_hash being removed
C21_Witness ==
    /\ stage = "altered"
    /\ edit = "alias"
    /\ FetchedDoc
    /\ ~HasOwn(doc, KeySha256Hash)
    /\ HasOwn(orig, KeySha256Hash)
    /\ Result.error = Undefined
    /\ Result.reported_hash = Prop(doc, KeyHash)
    /\ Before.ok
    /\ Result.computed_hash = Before.computed_hash

(***************************************************************************)
(* Properties of the canonical form of an object (specification            *)
(* CanonicalSpec).                                                         *)
(***************************************************************************)
\* an object serialized with every key given by the function render
ObjectText(obj, render(_)) ==
    LET keys == Sort(ObjectKeys(obj))
    IN  <<"{">>
        \o Join([i \in 1..Len(keys) |->
                    render(keys[i]) \o <<":">> \o canonicalJSON(Prop(obj, keys[i])).v],
                <<",">>)
        \o <<"}">>
RawKey(key) == <<"\"">> \o key \o <<"\"">>
NeedsEscape(key) == QuoteJSONString(key) # RawKey(key)

\* C22: canonicalJSON writes every member of an object as the key escaped as
\* a JSON string, a colon and the canonical value: a quote, a backslash or a
\* control character inside a key is escaped as inside a string value.
C22_KeysEscaped ==
    (Canonicalized /\ IsJson(doc) /\ doc.t = "object")
    => Chars(ObjectText(doc, QuoteJSONString))

\* what the code does: the TypeScript client writes the key as it is between
\* two quotes, which is the escaped form only for a key that needs no
\* escape; the PHP client writes the key escaped (of an array it takes for
\* an object)
C22_KeysRaw ==
    /\ (Canonicalized /\ IsJson(doc) /\ doc.t = "object")
        => /\ Chars(ObjectText(doc, RawKey))
           /\ (\E i \in 1..Len(doc.v) : NeedsEscape(doc.v[i].k))
                => ~Chars(ObjectText(doc, QuoteJSONString))
    /\ (last # NoCall /\ doc.t = "object" /\ IsObject(json_decode(doc))
          /\ \A i \in 1..Len(doc.v) : doc.v[i].v.t \notin {"object", "array"})
        => last.value.v
            = <<"{">>
              \o Join([i \in 1..Len(Sort(ObjectKeys(doc))) |->
                          QuoteJSONString(Sort(ObjectKeys(doc))[i]) \o <<":">>
                          \o PhpCanonicalJSON(Prop(doc, Sort(ObjectKeys(doc))[i]))],
                      <<",">>)
              \o <<"}">>

(***************************************************************************)
(* Properties of the comparison of the two digests (specification Spec).   *)
(***************************************************************************)
\* the two digests the last comparison was given: the computed one and the
\* reported one
Compared ==
    IF examined.op = "===" THEN <<Result.computed_hash, Result.reported_hash>>
    ELSE <<Str(PhpComputeReceiptHash(json_decode(doc))), Prop(doc, KeyReceiptHash)>>
SameLength == Compared[2].t = "string" /\ Len(Compared[1].v) = Len(Compared[2].v)

\* C23: the comparison of the computed digest with the reported digest
\* examines every position of two digests of one length, wherever the first
\* character that differs is.
C23_ConstantTimeComparison ==
    (examined # NoComparison /\ SameLength) => examined.n = Len(Compared[1].v)

\* what the code does: === of the TypeScript client stops at the first
\* position that differs, hash_equals of the PHP client examines every
\* position
C23_StopsAtFirstDifference ==
    (examined # NoComparison /\ SameLength)
    => /\ examined.op = "hash_equals" => examined.n = Len(Compared[1].v)
       /\ (examined.op = "===" /\ Compared[1] # Compared[2])
            => /\ examined.n = FirstDifference(Compared[1].v, Compared[2].v)
               /\ ~Result.ok
       /\ (examined.op = "===" /\ Compared[1] = Compared[2])
            => (examined.n = Len(Compared[1].v) /\ Result.ok)

Built == call # NoCall /\ call.method = "constructor" /\ config # NoClient
FacilitatorOf(request) == request.x402_context.facilitator_id

\* C25: the client keeps as facilitatorId the one its configuration supplies,
\* or facilitator.payai.network when the configuration supplies none, a
\* facilitatorId that is present but undefined included; every creation
\* request carries it as x402_context.facilitator_id and none lacks it.
C25_FacilitatorOnEveryRequest ==
    /\ Built
        => config.facilitatorId
            = IF "facilitatorId" \in DOMAIN call.given
                 /\ call.given.facilitatorId # Undefined
              THEN call.given.facilitatorId
              ELSE Text("facilitator.payai.network")
    /\ \A i \in 1..Len(sent) :
        /\ FacilitatorOf(sent[i]) # Undefined
        /\ FacilitatorOf(sent[i]) = config.facilitatorId

\* what the code does: a facilitatorId that is present wins over the default
\* whatever its value, so that an undefined one leaves the client, and every
\* request it sends, without facilitator
C25_UndefinedKept ==
    /\ Built
        => config.facilitatorId
            = IF "facilitatorId" \in DOMAIN call.given
              THEN call.given.facilitatorId
              ELSE Text("facilitator.payai.network")
    /\ \A i \in 1..Len(sent) : FacilitatorOf(sent[i]) = config.facilitatorId

(***************************************************************************)
(* Properties of the canonical form as a hashing input (specification      *)
(* CanonicalSpec).                                                         *)
(***************************************************************************)
\* two JSON values that are equal but for the member order of their objects
RECURSIVE SameJson(_, _)
SameJson(a, b) ==
    IF a.t # b.t THEN FALSE
    ELSE CASE a.t = "number" -> SameNumber(a, b)
           [] a.t = "array" ->
                /\ Len(a.v) = Len(b.v)
                /\ \A i \in 1..Len(a.v) : SameJson(a.v[i], b.v[i])
           [] a.t = "object" ->
                /\ Len(a.v) = Len(b.v)
                /\ \A i \in 1..Len(a.v) :
                    /\ HasOwn(b, a.v[i].k)
                    /\ SameJson(a.v[i].v, Prop(b, a.v[i].k))
           [] OTHER -> a = b

\* an object of the value has a key that needs an escape
RECURSIVE HasKeyToEscape(_)
HasKeyToEscape(x) ==
    CASE x.t = "array" -> \E i \in 1..Len(x.v) : HasKeyToEscape(x.v[i])
      [] x.t = "object" ->
            \E i \in 1..Len(x.v) : NeedsEscape(x.v[i].k) \/ HasKeyToEscape(x.v[i].v)
      [] OTHER -> FALSE

\* the JSON values other than the one serialized that get its canonical form
Collisions ==
    {d \in JsonValues : canonicalJSON(d) = res.value /\ ~SameJson(d, doc)}

\* C26: two JSON values that differ otherwise than in the member order of
\* their objects never have the same canonical form, whatever characters
\* their keys and strings hold.
C26_Injective ==
    (Canonicalized /\ IsJson(doc)) => Collisions = {}

\* what the code does: two values that differ share a canonical form only
\* when one of them has a key that needs an escape
C26_InjectiveButForKeys ==
    (Canonicalized /\ IsJson(doc))
    => \A d \in Collisions : HasKeyToEscape(d) \/ HasKeyToEscape(doc)

(***************************************************************************)
(* Properties of the result of verifyReceipt (specification Spec).         *)
(***************************************************************************)
\* C27: a result of verifyReceipt has an error exactly when it has no receipt
\* and its two digests are the empty string, and it then has ok = false; a
\* result without error has the document fetched as receipt, unchanged and
\* with its digest member, a computed digest that is a non-empty string and
\* a reported digest that is not empty.
C27_ResultShape ==
    outcome # NoCall
    => /\ res.kind = "return"
       /\ Result.error # Undefined
            <=> (/\ Result.receipt = Undefined
                 /\ Result.computed_hash = Empty
                 /\ Result.reported_hash = Empty)
       /\ Result.error # Undefined => Result.ok = FALSE
       /\ Result.error = Undefined
            => /\ FetchedDoc
               /\ Result.receipt = doc
               /\ HasReportedHash(Result.receipt)
               /\ Result.reported_hash = ReportedHash(doc).value
               /\ Result.computed_hash.t = "string"
               /\ Result.computed_hash # Empty
               /\ Result.reported_hash # Empty
               /\ Truthy(Result.reported_hash)

C27_Witness ==
    /\ FetchedDoc
    /\ stage = "altered"
    /\ edit = "value"
    /\ Result.error = Undefined
    /\ ~Result.ok
    /\ Result.receipt = doc
    /\ HasOwn(Result.receipt, KeySha256Hash)
    /\ HasOwn(Result.receipt, KeyHash)

\* the member inside the settlement, or inside its one element, that is
\* named as a digest member
NestedDigest(d) ==
    LET inner == Prop(d, KeySettlement)
    IN  IF inner.t = "array" THEN inner.v[1].v[1] ELSE inner.v[1]

\* the value of a digest-named member inside the settlement was changed
NestedChange ==
    /\ stage = "altered"
    /\ edit = "value"
    /\ HasOwn(doc, KeySettlement)
    /\ Prop(doc, KeySettlement) \in NestedDigests
    /\ Prop(orig, KeySettlement) \in NestedDigests
    /\ Prop(doc, KeySettlement).t = Prop(orig, KeySettlement).t
    /\ NestedDigest(doc).k = NestedDigest(orig).k
    /\ NestedDigest(doc).v # NestedDigest(orig).v

\* C28: only the members sha256_hash and hash of the document itself are
\* left out of the hashed document: one inside the settlement object or
\* inside an element of an array stays, a change of its value changes the
\* computed digest, and a receipt that verified before it verifies with
\* ok = false after it.
C28_ShallowRemoval ==
    NestedChange
    => /\ Prop(WithoutAliases(doc), KeySettlement) = Prop(doc, KeySettlement)
       /\ computeReceiptHash(doc) # computeReceiptHash(orig)
       /\ (FetchedDoc /\ Before.ok)
            => /\ Result.error = Undefined
               /\ Result.computed_hash # Before.computed_hash
               /\ ~Result.ok

C28_Witness ==
    /\ NestedChange
    /\ FetchedDoc
    /\ Before.ok
    /\ Prop(doc, KeySettlement).t = "array"
    /\ NestedDigest(doc).k = KeyHash
    /\ ~Result.ok

(***************************************************************************)
(* Properties of the validation of the PHP client (specification PhpSpec). *)
(***************************************************************************)
\* the last call was the method given of the PHP client
PhpCalled(method) == call # NoCall /\ call.method = method
\* the amount is missing, no number, zero or negative, or the token is
\* missing or empty
InvalidPay(args) ==
    \/ "amount" \notin DOMAIN args
    \/ args.amount.t # "number"
    \/ args.amount.neg
    \/ args.amount.mag = 0
    \/ "token" \notin DOMAIN args
    \/ args.token = Str(<<>>)
ParameterError(message) ==
    /\ last.kind = "throw"
    /\ last.message \in {Message(<<"Invalid parameter: " \o m>>) : m \in message}
    /\ requests = 0

MaxIdLen == 4       \* characters of an id in a route
MaxHops == 3        \* redirects followed from one visit

IdChars == {"p", "i", "c", "s", "_"}
RouteIds == {Str(s) : s \in UNION {[1..n -> IdChars] : n \in 1..MaxIdLen}}
Pages == {"checkout", "pay"}

\* String.prototype.startsWith
startsWith(x, prefix) ==
    /\ Len(x.v) >= Len(prefix)
    /\ SubSeq(x.v, 1, Len(prefix)) = prefix

\* the template strings `/pay/${id}` and `/checkout/${piId}`
PagePath(page) ==
    IF page = "pay" THEN <<"/", "p", "a", "y", "/">>
    ELSE <<"/", "c", "h", "e", "c", "k", "o", "u", "t", "/">>
RouteUrl(page, id) == PagePath(page) \o id.v

\* the router: the page whose path the url starts with, the rest of the url
\* being the parameter of the route; a parameter is one segment, not empty
Matches(url, page) ==
    /\ Len(url) > Len(PagePath(page))
    /\ SubSeq(url, 1, Len(PagePath(page))) = PagePath(page)
    /\ \A i \in (Len(PagePath(page)) + 1)..Len(url) : url[i] # "/"
Match(url, redirects) ==
    IF \E page \in Pages : Matches(url, page)
    THEN LET page == CHOOSE pg \in Pages : Matches(url, pg)
         IN  [page |-> page,
              id |-> Str(SubSeq(url, Len(PagePath(page)) + 1, Len(url))),
              redirects |-> redirects,
              shown |-> FALSE]
    ELSE NoRoute

\* the guard of PaymentIntentPage sending every id to /checkout
PayGuardOfAny(piId) == Truthy(piId) /\ piId.t = "string"

\* CheckoutPage: if (id.startsWith('pi_'))
CheckoutGuard(id) == startsWith(id, <<"p", "i", "_">>)
\* PaymentIntentPage:
\* if (piId && typeof piId === 'string' && piId.startsWith('cs_'))
PayGuard(piId) ==
    /\ Truthy(piId)
    /\ piId.t = "string"
    /\ startsWith(piId, <<"c", "s", "_">>)

RouteInit ==
    /\ doc = Null
    /\ orig = Null
    /\ stage = "draft"
    /\ edit = "none"
    /\ outcome = NoCall
    /\ res = NoCall
    /\ config = NoClient
    /\ sent = <<>>
    /\ last = NoCall
    /\ call = NoCall
    /\ remote = NoIntent
    /\ verifies = 0
    /\ requests = 0
    /\ examined = NoComparison
    /\ route = NoRoute

\* the browser opens /checkout/:id or /pay/:piId
Visit ==
    \E page \in Pages, id \in RouteIds :
        /\ route = NoRoute
        /\ route' = Match(RouteUrl(page, id), 0)
        /\ UNCHANGED <<doc, orig, stage, edit, outcome, res, config, sent, last, call,
                       remote, verifies, requests, examined>>

\* CheckoutPage({ params }): redirect(`/pay/${id}`) or the checkout session
CheckoutPage ==
    /\ route.page = "checkout"
    /\ ~route.shown
    /\ CheckoutGuard(route.id) => route.redirects < MaxHops
    /\ route' = IF CheckoutGuard(route.id)
                THEN Match(RouteUrl("pay", route.id), route.redirects + 1)
                ELSE [route EXCEPT !.shown = TRUE]
    /\ UNCHANGED <<doc, orig, stage, edit, outcome, res, config, sent, last, call,
                   remote, verifies, requests, examined>>

\* PaymentIntentPage(): window.location.href = `/checkout/${piId}` or the
\* payment intent
PaymentIntentPage ==
    /\ route.page = "pay"
    /\ ~route.shown
    /\ PayGuard(route.id) => route.redirects < MaxHops
    /\ route' = IF PayGuard(route.id)
                THEN Match(RouteUrl("checkout", route.id), route.redirects + 1)
                ELSE [route EXCEPT !.shown = TRUE]
    /\ UNCHANGED <<doc, orig, stage, edit, outcome, res, config, sent, last, call,
                   remote, verifies, requests, examined>>

RouteNext ==
    \/ Visit
    \/ CheckoutPage
    \/ PaymentIntentPage

\* a page that is opened runs its guard
RouteSpec ==
    /\ RouteInit
    /\ [][RouteNext]_vars
    /\ WF_vars(CheckoutPage)
    /\ WF_vars(PaymentIntentPage)

(***************************************************************************)
(* Properties of the route guards (specification RouteSpec).               *)
(***************************************************************************)
\* C30: from /checkout/:id or /pay/:id, for every id, the guards redirect
\* at most once, a page reached by a redirect does not redirect, and a page
\* that does not redirect is eventually shown.
C30_GuardsCannotLoop ==
    /\ [](/\ route.redirects <= 1
          /\ (route.redirects = 1 /\ route.page = "pay") => ~PayGuard(route.id)
          /\ (route.redirects = 1 /\ route.page = "checkout")
                => ~CheckoutGuard(route.id)
          /\ route.shown
                => /\ route.page = "pay" => ~PayGuard(route.id)
                   /\ route.page = "checkout" => ~CheckoutGuard(route.id))
    /\ [](route # NoRoute => <>route.shown)

C30_Witness ==
    /\ route.page = "pay"
    /\ route.id = Str(<<"p", "i", "_", "c">>)
    /\ route.redirects = 1
    /\ route.shown

====
